---- MODULE Spec2Model ----
(***************************************************************************)
(* Model of the `spell` vocabulary trainer (src/index.js): the review      *)
(* scheduler (getReviewInterval, addDays, findNextWordToReview), the word  *)
(* list operations (load/migration, add/reset, import, manage, clear) and  *)
(* the practice session driven by keypress, Ctrl+D, Ctrl+C and the         *)
(* penalty timer.                                                          *)
(*                                                                         *)
(* Strings are sequences of one-character strings.  Dates are integers     *)
(* counting clock ticks; a day is TicksPerDay ticks.  Every `new Date()`   *)
(* of the source is a read of `clock`; the clock may advance between two   *)
(* reads made by the same handler.                                         *)
(***************************************************************************)
EXTENDS Integers, Sequences, FiniteSets, TLC

\* ------------------------------------------------------------- bounds
MaxClock == 2
TicksPerDay == 2
MaxWords == 2
MaxTimers == 2
MaxStreak == 2
MinLevelArg == 3
MaxLevelArg == 10

\* ------------------------------------------------- program constants
DefaultRepeat == 3
MaxInterval == 180

\* ---------------------------------------------------------- alphabets
Letters == {"a", "b", "A"}
Chars == Letters \cup {"1"}

W_aba == <<"a", "b", "a">>
W_Aba == <<"A", "b", "a">>
W_b == <<"b">>
W_1a == <<"1", "a">>
Words == {W_aba, W_Aba, W_b, W_1a}

\* String.prototype.toLowerCase on the model's alphabet
LowerChar(c) == IF c = "A" THEN "a" ELSE IF c = "Y" THEN "y" ELSE c
toLowerCase(w) == [i \in DOMAIN w |-> LowerChar(w[i])]

\* String.prototype.startsWith
startsWith(w, p) == Len(p) <= Len(w) /\ SubSeq(w, 1, Len(p)) = p

\* str.match(/^[a-zA-Z]$/)
IsLetter(c) == c \in Letters

\* ---------------------------------------------------------- scheduler
intervals == <<1, 3, 7, 16, 35, 70, 140>>

Min2(a, b) == IF a <= b THEN a ELSE b

\* getReviewInterval indexing the array with level instead of level - 1 (mutant)
getReviewInterval_OffByOne(level) ==
  IF level <= 0 THEN 0
  ELSE LET calculatedInterval ==
             IF level + 1 \in DOMAIN intervals THEN intervals[level + 1] ELSE MaxInterval
       IN Min2(calculatedInterval, MaxInterval)

\* getReviewInterval falling back to a year, without Math.min (mutant)
getReviewInterval_NoCap(level) ==
  IF level <= 0 THEN 0
  ELSE IF level \in DOMAIN intervals THEN intervals[level] ELSE 365

\* getReviewInterval: intervals[level - 1] || 180, clamped to 180.
\* (JS arrays are 0-based: intervals[level - 1] is the model's intervals[level].)
getReviewInterval(level) ==
  IF level <= 0 THEN 0
  ELSE LET calculatedInterval ==
             IF level \in DOMAIN intervals THEN intervals[level] ELSE MaxInterval
       IN Min2(calculatedInterval, MaxInterval)

\* addDays: the date moved by `days` calendar days
addDays(date, days) == date + days * TicksPerDay

\* ------------------------------------------------------------- state
VARIABLES
  jsonExists,        \* ~/.spell/spellingList.json exists
  jsonFile,          \* its content: the persisted word list
  txtExists,         \* the old ~/.spell/spellingList.txt exists
  txtWords,          \* its lines
  clock,             \* the system clock, in ticks
  pc,                \* position of the process: off, loaded, clearPrompt, manage,
                     \* practice, exited
  outcome,           \* how the last process ended
  wordList,          \* state.wordList
  currentIndex,      \* state.currentIndex (0-based, as in the source)
  userInput,         \* state.userInput
  hasStartedTyping,  \* state.hasStartedTyping
  mode,              \* state.mode
  currentWordStreak, \* state.currentWordStreak
  repeatCount,       \* state.repeatCount
  timers,            \* pending setTimeout callbacks of handleIncorrectGuess
  saved,             \* the last step wrote the json file
  event,             \* the last event handled
  fnLevelA, fnLevelB, fnResult,  \* arguments and results of getReviewInterval
  drill,             \* the completions of one word the keyboard has produced in a row
  watch,             \* the reaction of onKeyPress to the first key, kept for comparison
  tally              \* the completions and advances of the session, counted

memVars == <<wordList, currentIndex, userInput, hasStartedTyping, mode,
             currentWordStreak, repeatCount>>
fileVars == <<jsonExists, jsonFile, txtExists, txtWords>>
fnVars == <<fnLevelA, fnLevelB, fnResult>>
vars == <<jsonExists, jsonFile, txtExists, txtWords, clock, pc, outcome, wordList,
          currentIndex, userInput, hasStartedTyping, mode, currentWordStreak,
          repeatCount, timers, saved, event, fnLevelA, fnLevelB, fnResult, drill, watch, tally>>

\* WordData (typedef)
WordData(w, d, l, lp, nr) ==
  [word |-> w, definition |-> d, level |-> l, lastPracticed |-> lp, nextReviewDate |-> nr]

\* a record of the old file format: no level, no dates
LegacyData(w, d) == [word |-> w, definition |-> d]

\* w.level === undefined
LevelUndefined(w) == "level" \notin DOMAIN w

\* a number or NaN, as parseInt returns it
Num(n) == [nan |-> FALSE, n |-> n]
NaN == [nan |-> TRUE, n |-> 0]

\* the comparison of line 462 met one completion early (mutant)
GreaterEq_OffByOne(a, b) == ~b.nan /\ a + 1 >= b.n

\* the comparison of line 462 made with > (mutant)
GreaterEq_Strict(a, b) == ~b.nan /\ a > b.n

\* a >= b for a number a and a parseInt result b: false when b is NaN
GreaterEq(a, b) == ~b.nan /\ a >= b.n

Ev(k, c) == [kind |-> k, ch |-> c]

\* p is a prefix of w
IsPrefix(p, w) == \E n \in 0..Len(w) : p = SubSeq(w, 1, n)

\* no completion yet
NoDrill == [word |-> <<>>, strict |-> 0, count |-> 0]

\* findIndex(w => w.word === word): the comparison without toLowerCase (mutant)
FindWordIndex_CaseSensitive(list, word) ==
  LET hits == {i \in DOMAIN list : list[i].word = word}
  IN IF hits = {} THEN 0 ELSE CHOOSE i \in hits : \A j \in hits : i <= j

\* Array.prototype.findIndex(w => w.word.toLowerCase() === word.toLowerCase()),
\* 1-based; 0 when there is none (the source's -1)
FindWordIndex(list, word) ==
  LET hits == {i \in DOMAIN list : toLowerCase(list[i].word) = toLowerCase(word)}
  IN IF hits = {} THEN 0 ELSE CHOOSE i \in hits : \A j \in hits : i <= j

\* splice(0, 1): the first record removed, whatever the index (mutant)
Splice_First(list, index) == Tail(list)

\* Array.prototype.splice(index, 1), index 0-based
Splice(list, index) ==
  SubSeq(list, 1, index) \o SubSeq(list, index + 2, Len(list))

\* ------------------------------------------------ findNextWordToReview
\* the filter of line 133 left out (mutant)
DueIndices_NoFilter(list, now) ==
  LET F[i \in 0..Len(list)] == IF i = 0 THEN <<>> ELSE Append(F[i - 1], i)
  IN F[Len(list)]

\* the indices (1-based) of the due records, in collection order
DueIndices(list, now) ==
  LET F[i \in 0..Len(list)] ==
        IF i = 0 THEN <<>>
        ELSE IF list[i].nextReviewDate <= now THEN Append(F[i - 1], i) ELSE F[i - 1]
  IN F[Len(list)]

RECURSIVE InsertByDate_Unstable(_, _, _)
\* an insertion that puts x before the elements of the same date (mutant)
InsertByDate_Unstable(s, x, list) ==
  IF s = <<>> THEN <<x>>
  ELSE IF list[Head(s)].nextReviewDate < list[x].nextReviewDate
       THEN <<Head(s)>> \o InsertByDate_Unstable(Tail(s), x, list)
       ELSE <<x>> \o s

RECURSIVE InsertByDate(_, _, _)
\* stable insertion of index x into the sorted index sequence s
InsertByDate(s, x, list) ==
  IF s = <<>> THEN <<x>>
  ELSE IF list[Head(s)].nextReviewDate <= list[x].nextReviewDate
       THEN <<Head(s)>> \o InsertByDate(Tail(s), x, list)
       ELSE <<x>> \o s

\* dueWords.sort((a, b) => new Date(a.nextReviewDate) - new Date(b.nextReviewDate))
SortByDate(due, list) ==
  LET F[i \in 0..Len(due)] ==
        IF i = 0 THEN <<>> ELSE InsertByDate(F[i - 1], due[i], list)
  IN F[Len(due)]

\* findNextWordToReview: [found, index]; index is the new state.currentIndex
\* (0-based), the old one when nothing is due
findNextWordToReview(list, now, oldIndex) ==
  LET dueWords == SortByDate(DueIndices(list, now), list)
  IN IF Len(dueWords) = 0
     THEN [found |-> FALSE, index |-> oldIndex]
     ELSE [found |-> TRUE, index |-> dueWords[1] - 1]

\* ------------------------------------------------------ initial state
FetchResults == {"d2", "(no definition found)"}
\* what parseInt gives for the argument of -r: the long drill is explored on
\* one-record lists
RepeatArgs(list) ==
  {Num(1), Num(3), Num(0), NaN} \cup (IF Len(list) <= 1 THEN {Num(10)} ELSE {})
TxtFiles == {<<W_aba>>, <<W_b, W_Aba, W_aba>>}
ImportFiles == {<<>>, <<W_b>>, <<W_aba, W_Aba>>, <<W_Aba, W_b>>}

\* <<level, nextReviewDate>> of the records a word starts with; a record of
\* level 0 was added or reset in the past, so it is due
InitSchedules(w) ==
  IF w = W_aba THEN {<<0, 0 - 1>>, <<7, 0>>, <<7, 1>>}
  ELSE IF w = W_b THEN {<<0, 0 - 1>>, <<0, 0>>, <<1, 1>>}
  ELSE {<<0, 0>>}

\* records of a word list written by this program: nextReviewDate is
\* lastPracticed plus the interval of the level; and one record of the old format
InitRecords ==
  {WordData(w, "d1", sch[1], sch[2] - getReviewInterval(sch[1]) * TicksPerDay, sch[2]) :
     w \in {W_aba}, sch \in InitSchedules(W_aba)}
  \cup {WordData(w, "d1", sch[1], sch[2] - getReviewInterval(sch[1]) * TicksPerDay, sch[2]) :
     w \in {W_b}, sch \in InitSchedules(W_b)}
  \cup {WordData(w, "d1", sch[1], sch[2] - getReviewInterval(sch[1]) * TicksPerDay, sch[2]) :
     w \in {W_1a}, sch \in InitSchedules(W_1a)}
  \cup {LegacyData(W_aba, "d1")}

DistinctWords(list) ==
  \A i, j \in DOMAIN list : i # j => toLowerCase(list[i].word) # toLowerCase(list[j].word)

InitLists ==
  {l \in UNION {[1..n -> InitRecords] : n \in 0..MaxWords} : DistinctWords(l)}

\* What the session holds when a key arrives, without hasStartedTyping
Projection ==
  [wordList |-> wordList, currentIndex |-> currentIndex, userInput |-> userInput,
   currentWordStreak |-> currentWordStreak, repeatCount |-> repeatCount, mode |-> mode]

\* word and level of every record (the dates of a record follow the time of the
\* event that wrote it)
WordLevels(list) == [i \in DOMAIN list |-> <<list[i].word, list[i].level>>]

\* What the session holds when onKeyPress is over
Reaction ==
  [userInput |-> userInput, currentWordStreak |-> currentWordStreak, mode |-> mode,
   running |-> (pc = "practice"), records |-> WordLevels(wordList)]

\* nothing is kept; `on` says whether reactions are kept at all
NoWatch ==
  [on |-> FALSE, set |-> FALSE, ch |-> "",
   from |-> [wordList |-> <<>>, currentIndex |-> 0, userInput |-> <<>>,
             currentWordStreak |-> 0, repeatCount |-> Num(DefaultRepeat), mode |-> "typing"],
   to |-> [userInput |-> <<>>, currentWordStreak |-> 0, mode |-> "typing",
           running |-> FALSE, records |-> <<>>]]

\* nothing is counted; `on` says whether the session is counted at all
NoTally == [on |-> FALSE, start |-> 0, due |-> {}, completions |-> 0, advanced |-> <<>>]

\* the values of `state` at module load (lines 22-34)
InitMem ==
  /\ wordList = <<>>
  /\ currentIndex = 0
  /\ userInput = <<>>
  /\ hasStartedTyping = FALSE
  /\ mode = "typing"
  /\ currentWordStreak = 0
  /\ repeatCount = Num(DefaultRepeat)

InitFn ==
  /\ fnLevelA = 0
  /\ fnLevelB = 0
  /\ fnResult = <<>>

Init ==
  /\ \/ /\ jsonExists = TRUE
        /\ jsonFile \in InitLists
        /\ txtExists = FALSE
        /\ txtWords = <<>>
     \/ /\ jsonExists = FALSE
        /\ jsonFile = <<>>
        /\ \/ txtExists = FALSE /\ txtWords = <<>>
           \/ txtExists = TRUE /\ txtWords \in TxtFiles
  /\ clock = 0
  /\ pc = "off"
  /\ outcome = "none"
  /\ InitMem
  /\ timers = 0
  /\ saved = FALSE
  /\ event = Ev("none", "")
  /\ drill = NoDrill
  /\ watch = NoWatch
  /\ tally = NoTally
  /\ InitFn

\* ------------------------------------------------------- clock reads
\* The i-th `new Date()` (i = 0, 1, ...) of a handler whose clock ticks once
\* before its k-th read; k = n means no tick during the handler's n reads.
ReadAt(i, k) == IF i < k THEN clock ELSE clock + 1

\* the tick positions a handler with n reads can see
TickPoints(n) == IF n = 0 THEN {0} ELSE {k \in 1..n : k < n => clock < MaxClock}

\* the clock when a handler with n reads is over
ClockAfter(n, k) == IF n = 0 THEN clock ELSE ReadAt(n - 1, k)

\* time passes between two events of the running process
Tick ==
  /\ pc \notin {"off", "exited"}
  /\ clock < MaxClock
  /\ clock' = clock + 1
  /\ event' = Ev("tick", "")
  /\ saved' = FALSE
  /\ UNCHANGED <<fileVars, pc, outcome, memVars, timers, fnVars, drill, watch, tally>>

\* addOrResetWord storing the spelling just given for a word it has (mutant)
addOrResetWord_Replace(list, word, now, definition) ==
  LET existingWordIndex == FindWordIndex(list, word)
  IN IF existingWordIndex # 0
     THEN [list EXCEPT ![existingWordIndex].word = word,
                       ![existingWordIndex].level = 0,
                       ![existingWordIndex].lastPracticed = now,
                       ![existingWordIndex].nextReviewDate = now]
     ELSE Append(list, WordData(word, definition, 0, now, now))

\* ---------------------------------------------------- addOrResetWord
\* addOrResetWord(word) on list at time now, with `definition` the answer of
\* getDefinition
addOrResetWord(list, word, now, definition) ==
  LET existingWordIndex == FindWordIndex(list, word)
  IN IF existingWordIndex # 0
     THEN [list EXCEPT ![existingWordIndex].level = 0,
                       ![existingWordIndex].lastPracticed = now,
                       ![existingWordIndex].nextReviewDate = now]
     ELSE Append(list, WordData(word, definition, 0, now, now))

RECURSIVE AddAll(_, _, _, _, _)
\* the loop `for (const word of words) await addOrResetWord(word)`; the i-th
\* call (from 0) reads the clock as ReadAt(i, k) and gets definition defs[i + 1]
AddAll(list, words, defs, i, k) ==
  IF i >= Len(words) THEN list
  ELSE AddAll(addOrResetWord(list, words[i + 1], ReadAt(i, k), defs[i + 1]),
              words, defs, i + 1, k)

\* ------------------------------------------------- initialize: loading
\* the number of records before position i that the load migrates
LegacyBefore(list, i) == Cardinality({j \in 1..(i - 1) : LevelUndefined(list[j])})

\* line 203: every record without a level gets level 0 and the current time,
\* read once for lastPracticed and once more for nextReviewDate
MigrateLevels(list, k) ==
  [i \in DOMAIN list |->
     IF LevelUndefined(list[i])
     THEN WordData(list[i].word, list[i].definition, 0,
                   ReadAt(2 * LegacyBefore(list, i), k),
                   ReadAt(2 * LegacyBefore(list, i) + 1, k))
     ELSE list[i]]

\* main -> initialize, up to the command line flags
Launch ==
  /\ pc = "off"
  /\ pc' = "loaded"
  /\ outcome' = "running"
  /\ event' = Ev("launch", "")
  /\ currentIndex' = 0
  /\ userInput' = <<>>
  /\ hasStartedTyping' = FALSE
  /\ mode' = "typing"
  /\ currentWordStreak' = 0
  /\ repeatCount' = Num(DefaultRepeat)
  /\ timers' = 0
  /\ UNCHANGED <<txtWords, fnVars, drill, watch, tally>>
  /\ \/ \* migrateTxtToJson
        /\ ~jsonExists /\ txtExists
        /\ \E k \in TickPoints(Len(txtWords)), defs \in [1..Len(txtWords) -> FetchResults] :
             /\ wordList' = AddAll(<<>>, txtWords, defs, 0, k)
             /\ clock' = ClockAfter(Len(txtWords), k)
        /\ jsonFile' = wordList'
        /\ jsonExists' = TRUE
        /\ txtExists' = FALSE
        /\ saved' = TRUE
     \/ \* the json file is read; records without a level are migrated
        /\ jsonExists
        /\ LET n == 2 * LegacyBefore(jsonFile, Len(jsonFile) + 1)
           IN /\ \E k \in TickPoints(n) :
                   /\ wordList' = MigrateLevels(jsonFile, k)
                   /\ clock' = ClockAfter(n, k)
              /\ saved' = (n > 0)
              /\ jsonFile' = IF n > 0 THEN wordList' ELSE jsonFile
        /\ UNCHANGED <<jsonExists, txtExists>>
     \/ \* first run: an empty list is written
        /\ ~jsonExists /\ ~txtExists
        /\ wordList' = <<>>
        /\ jsonFile' = <<>>
        /\ jsonExists' = TRUE
        /\ saved' = TRUE
        /\ UNCHANGED <<txtExists, clock>>

\* process.exit: the process is gone, its memory stays as it was
Exit(o) ==
  /\ pc' = "exited"
  /\ outcome' = o

NoSave ==
  /\ saved' = FALSE
  /\ UNCHANGED fileVars

\* saveWordList writing nothing for an empty list (mutant)
saveWordList_SkipsEmpty(list) ==
  IF list = <<>> THEN NoSave
  ELSE /\ jsonFile' = list
       /\ saved' = TRUE
       /\ UNCHANGED <<jsonExists, txtExists, txtWords>>

\* saveWordList leaving the file as it is (mutant)
saveWordList_Noop(list) ==
  /\ saved' = TRUE
  /\ UNCHANGED fileVars

\* saveWordList
saveWordList(list) ==
  /\ jsonFile' = list
  /\ saved' = TRUE
  /\ UNCHANGED <<jsonExists, txtExists, txtWords>>

\* ------------------------------------------------------------ --clear
\* initialize -> clearList: the question is asked
ClearAsk ==
  /\ pc = "loaded"
  /\ pc' = "clearPrompt"
  /\ event' = Ev("clear", "")
  /\ NoSave
  /\ UNCHANGED <<clock, outcome, memVars, timers, fnVars, drill, watch, tally>>

\* what the user may answer to 'Are you sure? (y/N)'
ClearAnswers == {"y", "Y", "n", "", "yes"}

\* the callback taking the empty answer for a yes (mutant)
ClearAnswer_DefaultYes(answer) ==
  /\ pc = "clearPrompt"
  /\ event' = Ev("answer", answer)
  /\ IF LowerChar(answer) = "y" \/ answer = ""
     THEN /\ wordList' = <<>>
          /\ saveWordList(wordList')
          /\ Exit("cleared")
     ELSE /\ NoSave
          /\ Exit("cancelled")
          /\ UNCHANGED wordList
  /\ UNCHANGED <<clock, currentIndex, userInput, hasStartedTyping, mode,
                 currentWordStreak, repeatCount, timers, fnVars, drill, watch, tally>>

\* the callback of globalRl.question
ClearAnswer(answer) ==
  /\ pc = "clearPrompt"
  /\ event' = Ev("answer", answer)
  /\ IF LowerChar(answer) = "y"
     THEN /\ wordList' = <<>>
          /\ saveWordList(wordList')
          /\ Exit("cleared")
     ELSE /\ NoSave
          /\ Exit("cancelled")
          /\ UNCHANGED wordList
  /\ UNCHANGED <<clock, currentIndex, userInput, hasStartedTyping, mode,
                 currentWordStreak, repeatCount, timers, fnVars, drill, watch, tally>>

\* ----------------------------------------------------------- --import
\* importList with a file that does not exist
ImportMissing ==
  /\ pc = "loaded"
  /\ event' = Ev("import", "missing")
  /\ NoSave
  /\ Exit("importError")
  /\ UNCHANGED <<clock, memVars, timers, fnVars, drill, watch, tally>>

\* importList(filePath), words being the trimmed non-empty lines of the file
importList(words) ==
  /\ pc = "loaded"
  /\ event' = Ev("import", "file")
  /\ \E k \in TickPoints(Len(words)), defs \in [1..Len(words) -> FetchResults] :
       /\ wordList' = AddAll(wordList, words, defs, 0, k)
       /\ clock' = ClockAfter(Len(words), k)
  /\ Len(wordList') <= MaxWords
  /\ saveWordList(wordList')
  /\ Exit("imported")
  /\ UNCHANGED <<currentIndex, userInput, hasStartedTyping, mode,
                 currentWordStreak, repeatCount, timers, fnVars, drill, watch, tally>>

\* ------------------------------------------------------- spell <word>
\* initialize, lines 224-230
AddWord(word) ==
  /\ pc = "loaded"
  /\ event' = Ev("add", word)
  /\ \E definition \in FetchResults :
       wordList' = addOrResetWord(wordList, word, clock, definition)
  /\ Len(wordList') <= MaxWords
  /\ saveWordList(wordList')
  /\ Exit("added")
  /\ UNCHANGED <<clock, currentIndex, userInput, hasStartedTyping, mode,
                 currentWordStreak, repeatCount, timers, fnVars, drill, watch, tally>>

\* ----------------------------------------------------------- --manage
\* initialize line 218, main -> manageWords
ManageStart ==
  /\ pc = "loaded"
  /\ pc' = "manage"
  /\ mode' = "manage"
  /\ event' = Ev("manage", "")
  /\ NoSave
  /\ UNCHANGED <<clock, outcome, wordList, currentIndex, userInput, hasStartedTyping,
                 currentWordStreak, repeatCount, timers, fnVars, drill, watch, tally>>

ManageCommands == {"d", "r", "q", "x"}

\* rl.on('line'): command is parts[0].toLowerCase(), index is parseInt(parts[1]) - 1,
\* NaN when parts[1] is no number
ManageLine(command, index) ==
  /\ pc = "manage"
  /\ event' = Ev("line", command)
  /\ UNCHANGED <<currentIndex, userInput, hasStartedTyping, mode,
                 currentWordStreak, repeatCount, timers, fnVars, drill, watch, tally>>
  /\ IF command = "q"
     THEN /\ Exit("quit")
          /\ NoSave
          /\ UNCHANGED <<wordList, clock>>
     ELSE IF index.nan \/ index.n < 0 \/ index.n >= Len(wordList)
     THEN /\ NoSave
          /\ UNCHANGED <<wordList, clock, pc, outcome>>
     ELSE IF command = "d"
     THEN /\ wordList' = Splice(wordList, index.n)
          /\ saveWordList(wordList')
          /\ UNCHANGED <<clock, pc, outcome>>
     ELSE IF command = "r"
     THEN /\ wordList' = [wordList EXCEPT ![index.n + 1].level = 0,
                                           ![index.n + 1].lastPracticed = clock,
                                           ![index.n + 1].nextReviewDate = clock]
          /\ saveWordList(wordList')
          /\ UNCHANGED <<clock, pc, outcome>>
     ELSE /\ NoSave
          /\ UNCHANGED <<wordList, clock, pc, outcome>>

ManageIndices == {Num(i) : i \in (0 - 1)..MaxWords} \cup {NaN}

\* The session starts: the time and the words findNextWordToReview finds due
\* are noted, the counts start at zero.
ObserveStart ==
  tally' =
    IF tally.on
    THEN LET due == DueIndices(wordList, clock)
         IN [on |-> TRUE, start |-> clock,
             due |-> {wordList[due[j]].word : j \in DOMAIN due},
             completions |-> 0, advanced |-> <<>>]
    ELSE tally

\* ------------------------------------------------- practice: starting
\* main reporting a list with nothing due as an empty list (mutant)
PracticeStart_OneOutcome(repeat) ==
  /\ pc = "loaded"
  /\ event' = Ev("practice", "")
  /\ repeatCount' = repeat
  /\ NoSave
  /\ UNCHANGED <<clock, wordList, userInput, hasStartedTyping, mode,
                 currentWordStreak, timers, fnVars, drill, watch>>
  /\ ObserveStart
  /\ IF Len(wordList) = 0
     THEN /\ Exit("empty")
          /\ UNCHANGED currentIndex
     ELSE LET next == findNextWordToReview(wordList, clock, currentIndex)
          IN /\ currentIndex' = next.index
             /\ IF next.found
                THEN pc' = "practice" /\ UNCHANGED outcome
                ELSE Exit("empty")

\* initialize lines 221-222 and main lines 565-582; repeat is the value parseInt gives
PracticeStart(repeat) ==
  /\ pc = "loaded"
  /\ event' = Ev("practice", "")
  /\ repeatCount' = repeat
  /\ NoSave
  /\ UNCHANGED <<clock, wordList, userInput, hasStartedTyping, mode,
                 currentWordStreak, timers, fnVars, drill, watch>>
  /\ ObserveStart
  /\ IF Len(wordList) = 0
     THEN /\ Exit("empty")
          /\ UNCHANGED currentIndex
     ELSE LET next == findNextWordToReview(wordList, clock, currentIndex)
          IN /\ currentIndex' = next.index
             /\ IF next.found
                THEN pc' = "practice" /\ UNCHANGED outcome
                ELSE Exit("nothingDue")

\* --------------------------------------------------- practice: events
\* advance without `currentWordData.level++` (mutant)
advance_KeepsLevel(record, t1, t2) ==
  LET interval == getReviewInterval(record.level + 1)
  IN [record EXCEPT !.lastPracticed = t1,
                    !.nextReviewDate = addDays(t2, interval)]

\* advance raising the level by two (mutant)
advance_TwoLevels(record, t1, t2) ==
  LET level == record.level + 2
      interval == getReviewInterval(level)
  IN [record EXCEPT !.level = level,
                    !.lastPracticed = t1,
                    !.nextReviewDate = addDays(t2, interval)]

\* advance stopping after `currentWordData.level++` (mutant)
advance_LevelOnly(record, t1, t2) ==
  [record EXCEPT !.level = record.level + 1]

\* advance writing a record without its definition text (mutant)
advance_DropsDefinition(record, t1, t2) ==
  LET level == record.level + 1
      interval == getReviewInterval(level)
  IN [record EXCEPT !.level = level,
                    !.definition = "",
                    !.lastPracticed = t1,
                    !.nextReviewDate = addDays(t2, interval)]

\* lines 463-466: the scheduling update of a record, lastPracticed read at t1
\* and the date that addDays moves read at t2
advance(record, t1, t2) ==
  LET level == record.level + 1
      interval == getReviewInterval(level)
  IN [record EXCEPT !.level = level,
                    !.lastPracticed = t1,
                    !.nextReviewDate = addDays(t2, interval)]

\* handleCorrectGuess without the call of findNextWordToReview (mutant)
handleCorrectGuess_KeepsTarget(input) ==
  LET currentWordData == wordList[currentIndex + 1]
      streak == currentWordStreak + 1
  IN IF input = currentWordData.word
     THEN /\ userInput' = <<>>
          /\ hasStartedTyping' = FALSE
          /\ UNCHANGED <<repeatCount, timers>>
          /\ repeatCount.nan => streak <= MaxStreak
          /\ IF GreaterEq(streak, repeatCount)
             THEN \E k \in TickPoints(2) :
                    LET list == [wordList EXCEPT ![currentIndex + 1] =
                                   advance(currentWordData, ReadAt(0, k), ReadAt(1, k))]
                    IN /\ wordList' = list
                       /\ saveWordList(list)
                       /\ currentWordStreak' = 0
                       /\ clock' = ReadAt(1, k)
                       /\ mode' = "typing"
                       /\ UNCHANGED <<currentIndex, pc, outcome>>
             ELSE /\ currentWordStreak' = streak
                  /\ mode' = "typing"
                  /\ NoSave
                  /\ UNCHANGED <<wordList, currentIndex, clock, pc, outcome>>
     ELSE /\ userInput' = input
          /\ hasStartedTyping' = TRUE
          /\ NoSave
          /\ UNCHANGED <<wordList, currentIndex, mode, currentWordStreak, repeatCount,
                         timers, clock, pc, outcome>>

\* handleCorrectGuess without `state.currentWordStreak = 0` (mutant)
handleCorrectGuess_KeepsStreak(input) ==
  LET currentWordData == wordList[currentIndex + 1]
      streak == currentWordStreak + 1
  IN IF input = currentWordData.word
     THEN /\ userInput' = <<>>
          /\ hasStartedTyping' = FALSE
          /\ UNCHANGED <<repeatCount, timers>>
          /\ repeatCount.nan => streak <= MaxStreak
          /\ IF GreaterEq(streak, repeatCount)
             THEN \E k \in TickPoints(3) :
                    LET list == [wordList EXCEPT ![currentIndex + 1] =
                                   advance(currentWordData, ReadAt(0, k), ReadAt(1, k))]
                        next == findNextWordToReview(list, ReadAt(2, k), currentIndex)
                    IN /\ wordList' = list
                       /\ saveWordList(list)
                       /\ currentWordStreak' = streak
                       /\ clock' = ReadAt(2, k)
                       /\ currentIndex' = next.index
                       /\ IF next.found
                          THEN mode' = "typing" /\ UNCHANGED <<pc, outcome>>
                          ELSE mode' = "success" /\ Exit("completed")
             ELSE /\ currentWordStreak' = streak
                  /\ mode' = "typing"
                  /\ NoSave
                  /\ UNCHANGED <<wordList, currentIndex, clock, pc, outcome>>
     ELSE /\ userInput' = input
          /\ hasStartedTyping' = TRUE
          /\ NoSave
          /\ UNCHANGED <<wordList, currentIndex, mode, currentWordStreak, repeatCount,
                         timers, clock, pc, outcome>>

\* handleCorrectGuess, called with state.userInput = input
handleCorrectGuess(input) ==
  LET currentWordData == wordList[currentIndex + 1]
      streak == currentWordStreak + 1
  IN IF input = currentWordData.word
     THEN /\ userInput' = <<>>
          /\ hasStartedTyping' = FALSE
          /\ UNCHANGED <<repeatCount, timers>>
          /\ repeatCount.nan => streak <= MaxStreak
          /\ IF GreaterEq(streak, repeatCount)
             THEN \E k \in TickPoints(3) :
                    LET list == [wordList EXCEPT ![currentIndex + 1] =
                                   advance(currentWordData, ReadAt(0, k), ReadAt(1, k))]
                        next == findNextWordToReview(list, ReadAt(2, k), currentIndex)
                    IN /\ wordList' = list
                       /\ saveWordList(list)
                       /\ currentWordStreak' = 0
                       /\ clock' = ReadAt(2, k)
                       /\ currentIndex' = next.index
                       /\ IF next.found
                          THEN mode' = "typing" /\ UNCHANGED <<pc, outcome>>
                          ELSE mode' = "success" /\ Exit("completed")
             ELSE /\ currentWordStreak' = streak
                  /\ mode' = "typing"
                  /\ NoSave
                  /\ UNCHANGED <<wordList, currentIndex, clock, pc, outcome>>
     ELSE /\ userInput' = input
          /\ hasStartedTyping' = TRUE
          /\ NoSave
          /\ UNCHANGED <<wordList, currentIndex, mode, currentWordStreak, repeatCount,
                         timers, clock, pc, outcome>>

\* handleIncorrectGuess without `state.currentWordStreak = 0` (mutant)
handleIncorrectGuess_KeepsStreak ==
  /\ timers < MaxTimers
  /\ mode' = "error"
  /\ userInput' = <<>>
  /\ hasStartedTyping' = FALSE
  /\ timers' = timers + 1
  /\ NoSave
  /\ UNCHANGED <<wordList, currentIndex, currentWordStreak, repeatCount, clock, pc, outcome>>

\* handleIncorrectGuess rescheduling the word for tomorrow at level 1 and saving,
\* as README.md line 123 describes it (mutant)
handleIncorrectGuess_Reschedule ==
  /\ timers < MaxTimers
  /\ mode' = "error"
  /\ userInput' = <<>>
  /\ hasStartedTyping' = FALSE
  /\ currentWordStreak' = 0
  /\ timers' = timers + 1
  /\ wordList' = [wordList EXCEPT ![currentIndex + 1].level = 1,
                                   ![currentIndex + 1].lastPracticed = clock,
                                   ![currentIndex + 1].nextReviewDate = addDays(clock, 1)]
  /\ saveWordList(wordList')
  /\ UNCHANGED <<currentIndex, repeatCount, clock, pc, outcome>>

\* handleIncorrectGuess: the penalty, and a timer that ends it
\* handleIncorrectGuess without the setTimeout of lines 492-495 (mutant)
handleIncorrectGuess_NoTimer ==
  /\ timers < MaxTimers
  /\ mode' = "error"
  /\ userInput' = <<>>
  /\ hasStartedTyping' = FALSE
  /\ currentWordStreak' = 0
  /\ timers' = timers
  /\ NoSave
  /\ UNCHANGED <<wordList, currentIndex, repeatCount, clock, pc, outcome>>

handleIncorrectGuess ==
  /\ timers < MaxTimers
  /\ mode' = "error"
  /\ userInput' = <<>>
  /\ hasStartedTyping' = FALSE
  /\ currentWordStreak' = 0
  /\ timers' = timers + 1
  /\ NoSave
  /\ UNCHANGED <<wordList, currentIndex, repeatCount, clock, pc, outcome>>

\* one more completion of word after n of the word drill.word
OneMore(word, n) == IF drill.word = word THEN n + 1 ELSE 1

\* What a printable character does to the run of completions, seen from the
\* keyboard.  In the typing state a character that completes the target word
\* adds one completion, a character that breaks the prefix ends the run, and a
\* step that changes a record starts a new run.  `strict` takes every character
\* that breaks the prefix as the end of the run; `count` leaves out the
\* non-letter that onKeyPress drops before typing has started.
ObserveKey(str) ==
  LET word == wordList[currentIndex + 1].word
      input == Append(userInput, str)
      accepted == hasStartedTyping \/ IsLetter(str)
  IN drill' =
       IF mode # "typing" THEN drill
       ELSE IF wordList' # wordList THEN NoDrill
       ELSE IF input = word
       THEN [word |-> word, strict |-> OneMore(word, drill.strict),
             count |-> OneMore(word, drill.count)]
       ELSE IF ~IsPrefix(input, word)
       THEN [drill EXCEPT !.strict = 0, !.count = IF accepted THEN 0 ELSE @]
       ELSE drill

\* The reaction of onKeyPress to the first key of the session is kept: the
\* state the key str met and the state the handler left.
ObserveReaction(str) ==
  watch' =
    IF watch.on /\ ~watch.set
    THEN [on |-> TRUE, set |-> TRUE, from |-> Projection, ch |-> str, to |-> Reaction']
    ELSE watch

\* A character that completes the target word counts as one completion; when
\* the handler has changed the list, the word is noted as advanced.  Sessions
\* with a repeat count that is no number >= 1 are not counted.
ObserveCompletion(str) ==
  LET word == wordList[currentIndex + 1].word
      input == Append(userInput, str)
      accepted == hasStartedTyping \/ IsLetter(str)
  IN tally' =
       IF ~tally.on \/ repeatCount.nan \/ repeatCount.n < 1 THEN tally
       ELSE IF mode = "typing" /\ accepted /\ input = word
       THEN [tally EXCEPT !.completions = @ + 1,
                          !.advanced = IF wordList' # wordList THEN Append(@, word) ELSE @]
       ELSE tally

\* the keypress leaves the state as it is
Ignored ==
  /\ NoSave
  /\ UNCHANGED <<memVars, timers, clock, pc, outcome>>

\* onKeyPress without the test of line 511: characters typed during a penalty
\* are collected (mutant)
KeyPress_TypesInPenalty(str) ==
  /\ pc = "practice"
  /\ event' = Ev("char", str)
  /\ UNCHANGED fnVars
  /\ IF ~hasStartedTyping /\ ~IsLetter(str)
     THEN Ignored
     ELSE IF mode = "typing"
     THEN LET input == Append(userInput, str)
              word == wordList[currentIndex + 1].word
          IN IF startsWith(word, input)
             THEN IF input = word
                  THEN handleCorrectGuess(input)
                  ELSE /\ userInput' = input
                       /\ hasStartedTyping' = TRUE
                       /\ NoSave
                       /\ UNCHANGED <<wordList, currentIndex, mode, currentWordStreak,
                                      repeatCount, timers, clock, pc, outcome>>
             ELSE handleIncorrectGuess
     ELSE /\ hasStartedTyping' = TRUE
          /\ userInput' = <<str>>
          /\ NoSave
          /\ UNCHANGED <<wordList, currentIndex, mode, currentWordStreak,
                         repeatCount, timers, clock, pc, outcome>>
  /\ ObserveKey(str)
  /\ ObserveReaction(str)
  /\ ObserveCompletion(str)

\* onKeyPress(str, key) for a printable character str
KeyPress(str) ==
  /\ pc = "practice"
  /\ event' = Ev("char", str)
  /\ UNCHANGED fnVars
  /\ IF ~hasStartedTyping /\ ~IsLetter(str)
     THEN Ignored
     ELSE IF mode = "typing"
     THEN LET input == Append(userInput, str)
              word == wordList[currentIndex + 1].word
          IN IF startsWith(word, input)
             THEN IF input = word
                  THEN handleCorrectGuess(input)
                  ELSE /\ userInput' = input
                       /\ hasStartedTyping' = TRUE
                       /\ NoSave
                       /\ UNCHANGED <<wordList, currentIndex, mode, currentWordStreak,
                                      repeatCount, timers, clock, pc, outcome>>
             ELSE handleIncorrectGuess
     ELSE /\ hasStartedTyping' = TRUE
          /\ NoSave
          /\ UNCHANGED <<wordList, currentIndex, userInput, mode, currentWordStreak,
                         repeatCount, timers, clock, pc, outcome>>
  /\ ObserveKey(str)
  /\ ObserveReaction(str)
  /\ ObserveCompletion(str)

\* the backspace key emptying userInput (mutant)
Backspace_ClearsAll ==
  /\ pc = "practice"
  /\ event' = Ev("backspace", "")
  /\ UNCHANGED <<fnVars, drill, watch, tally>>
  /\ IF hasStartedTyping /\ mode = "typing"
     THEN /\ userInput' = <<>>
          /\ NoSave
          /\ UNCHANGED <<wordList, currentIndex, hasStartedTyping, mode,
                         currentWordStreak, repeatCount, timers, clock, pc, outcome>>
     ELSE Ignored

\* onKeyPress for the backspace key
Backspace ==
  /\ pc = "practice"
  /\ event' = Ev("backspace", "")
  /\ UNCHANGED <<fnVars, drill, watch, tally>>
  /\ IF hasStartedTyping /\ mode = "typing"
     THEN /\ userInput' = SubSeq(userInput, 1, Len(userInput) - 1)
          /\ NoSave
          /\ UNCHANGED <<wordList, currentIndex, hasStartedTyping, mode,
                         currentWordStreak, repeatCount, timers, clock, pc, outcome>>
     ELSE Ignored

\* Ctrl+C: onKeyPress lines 499-502
CtrlC ==
  /\ pc = "practice"
  /\ event' = Ev("ctrlC", "")
  /\ Exit("interrupted")
  /\ NoSave
  /\ UNCHANGED <<memVars, timers, clock, fnVars, drill, watch, tally>>

\* Ctrl+D without `state.currentWordStreak = 0` (mutant)
CtrlD_KeepsStreak ==
  /\ pc = "practice"
  /\ event' = Ev("ctrlD", "")
  /\ wordList' = Splice(wordList, currentIndex)
  /\ saveWordList(wordList')
  /\ UNCHANGED <<repeatCount, timers, clock, fnVars, currentWordStreak>>
  /\ drill' = NoDrill
  /\ UNCHANGED <<watch, tally>>
  /\ IF Len(wordList') = 0
     THEN /\ Exit("listEmpty")
          /\ UNCHANGED <<currentIndex, userInput, hasStartedTyping, mode>>
     ELSE /\ currentIndex' = 0
          /\ userInput' = <<>>
          /\ hasStartedTyping' = FALSE
          /\ mode' = "typing"
          /\ UNCHANGED <<pc, outcome>>

\* Ctrl+D without `state.userInput = ''` (mutant)
CtrlD_KeepsInput ==
  /\ pc = "practice"
  /\ event' = Ev("ctrlD", "")
  /\ wordList' = Splice(wordList, currentIndex)
  /\ saveWordList(wordList')
  /\ UNCHANGED <<repeatCount, timers, clock, fnVars, userInput>>
  /\ drill' = NoDrill
  /\ UNCHANGED <<watch, tally>>
  /\ IF Len(wordList') = 0
     THEN /\ Exit("listEmpty")
          /\ UNCHANGED <<currentIndex, hasStartedTyping, mode, currentWordStreak>>
     ELSE /\ currentIndex' = 0
          /\ hasStartedTyping' = FALSE
          /\ mode' = "typing"
          /\ currentWordStreak' = 0
          /\ UNCHANGED <<pc, outcome>>

\* onData without `state.currentIndex = 0` (line 541) (mutant)
CtrlD_KeepsIndex ==
  /\ pc = "practice"
  /\ event' = Ev("ctrlD", "")
  /\ wordList' = Splice(wordList, currentIndex)
  /\ saveWordList(wordList')
  /\ UNCHANGED <<repeatCount, timers, clock, fnVars>>
  /\ drill' = NoDrill
  /\ UNCHANGED <<watch, tally>>
  /\ IF Len(wordList') = 0
     THEN /\ Exit("listEmpty")
          /\ UNCHANGED <<currentIndex, userInput, hasStartedTyping, mode, currentWordStreak>>
     ELSE /\ currentIndex' = currentIndex
          /\ userInput' = <<>>
          /\ hasStartedTyping' = FALSE
          /\ mode' = "typing"
          /\ currentWordStreak' = 0
          /\ UNCHANGED <<pc, outcome>>

\* Ctrl+D: onData (onKeyPress leaves the state alone for this key)
CtrlD ==
  /\ pc = "practice"
  /\ event' = Ev("ctrlD", "")
  /\ wordList' = Splice(wordList, currentIndex)
  /\ saveWordList(wordList')
  /\ UNCHANGED <<repeatCount, timers, clock, fnVars>>
  /\ drill' = NoDrill
  /\ UNCHANGED <<watch, tally>>
  /\ IF Len(wordList') = 0
     THEN /\ Exit("listEmpty")
          /\ UNCHANGED <<currentIndex, userInput, hasStartedTyping, mode, currentWordStreak>>
     ELSE /\ currentIndex' = 0
          /\ userInput' = <<>>
          /\ hasStartedTyping' = FALSE
          /\ mode' = "typing"
          /\ currentWordStreak' = 0
          /\ UNCHANGED <<pc, outcome>>

\* the timer callback running although the process has exited (mutant)
TimerFire_AfterExit ==
  /\ pc \in {"practice", "exited"}
  /\ timers > 0
  /\ timers' = timers - 1
  /\ mode' = "typing"
  /\ event' = Ev("timer", "")
  /\ NoSave
  /\ UNCHANGED <<wordList, currentIndex, userInput, hasStartedTyping, currentWordStreak,
                 repeatCount, clock, pc, outcome, fnVars, drill, watch, tally>>

\* the callback handleIncorrectGuess gave to setTimeout
TimerFire ==
  /\ pc = "practice"
  /\ timers > 0
  /\ timers' = timers - 1
  /\ mode' = "typing"
  /\ event' = Ev("timer", "")
  /\ NoSave
  /\ UNCHANGED <<wordList, currentIndex, userInput, hasStartedTyping, currentWordStreak,
                 repeatCount, clock, pc, outcome, fnVars, drill, watch, tally>>

\* ------------------------------------------------------ specification
ProgramStep ==
  \/ Tick
  \/ Launch
  \/ ClearAsk
  \/ \E answer \in ClearAnswers : ClearAnswer(answer)
  \/ ImportMissing
  \/ \E words \in ImportFiles : importList(words)
  \/ \E word \in Words : AddWord(word)
  \/ ManageStart
  \/ \E command \in ManageCommands, index \in ManageIndices : ManageLine(command, index)
  \/ \E repeat \in RepeatArgs(wordList) : PracticeStart(repeat)
  \/ \E str \in Chars : KeyPress(str)
  \/ Backspace
  \/ CtrlC
  \/ CtrlD
  \/ TimerFire

Next == ProgramStep

Spec == Init /\ [][Next]_vars

\* ----------------------------------- practice sessions compared
\* a list of one record is on disk and the first reaction of the session will
\* be kept
InitReaction ==
  /\ jsonExists = TRUE
  /\ jsonFile \in {l \in InitLists : Len(l) = 1}
  /\ txtExists = FALSE
  /\ txtWords = <<>>
  /\ clock = 0
  /\ pc = "off"
  /\ outcome = "none"
  /\ InitMem
  /\ timers = 0
  /\ saved = FALSE
  /\ event = Ev("none", "")
  /\ drill = NoDrill
  /\ watch = [NoWatch EXCEPT !.on = TRUE]
  /\ tally = NoTally
  /\ InitFn

\* `spell` or `spell -r n` and the events of the session
SessionStep ==
  \/ Tick
  \/ Launch
  \/ \E repeat \in RepeatArgs(wordList) : PracticeStart(repeat)
  \/ \E str \in Chars : KeyPress(str)
  \/ Backspace
  \/ CtrlC
  \/ CtrlD
  \/ TimerFire

NextReaction == SessionStep

SpecReaction == InitReaction /\ [][NextReaction]_vars

\* --------------------------------------- sessions whose timers run
\* a list of at most two records is on disk: with two, Ctrl+D leaves a session
\* to go on with
InitSession ==
  /\ jsonExists = TRUE
  /\ jsonFile \in {l \in InitLists : Len(l) <= 2}
  /\ txtExists = FALSE
  /\ txtWords = <<>>
  /\ clock = 0
  /\ pc = "off"
  /\ outcome = "none"
  /\ InitMem
  /\ timers = 0
  /\ saved = FALSE
  /\ event = Ev("none", "")
  /\ drill = NoDrill
  /\ watch = NoWatch
  /\ tally = NoTally
  /\ InitFn

NextSession == SessionStep

\* The event loop of node runs a setTimeout callback once its delay is over:
\* no handler of the session blocks, so a pending callback is not put off for
\* ever while the process runs.
SpecSession == InitSession /\ [][NextSession]_vars /\ WF_vars(TimerFire)

\* ------------------------------------- sessions typed without a slip
\* a list is on disk and the session will be counted
InitExact ==
  /\ jsonExists = TRUE
  /\ jsonFile \in InitLists
  /\ txtExists = FALSE
  /\ txtWords = <<>>
  /\ clock = 0
  /\ pc = "off"
  /\ outcome = "none"
  /\ InitMem
  /\ timers = 0
  /\ saved = FALSE
  /\ event = Ev("none", "")
  /\ drill = NoDrill
  /\ watch = NoWatch
  /\ tally = [NoTally EXCEPT !.on = TRUE]
  /\ InitFn

\* the user presses the next character of the word on the screen
ExactKey ==
  /\ pc = "practice"
  /\ KeyPress(wordList[currentIndex + 1].word[Len(userInput) + 1])

NextExact ==
  \/ Tick
  \/ Launch
  \/ \E repeat \in RepeatArgs(wordList) : PracticeStart(repeat)
  \/ ExactKey

\* The user goes on typing: a session that waits for a key gets one.
SpecExact == InitExact /\ [][NextExact]_vars /\ WF_vars(ExactKey)

\* -------------------------------- getReviewInterval as a function
LevelArgs == (0 - MinLevelArg)..MaxLevelArg

InitInterval ==
  /\ jsonExists = TRUE
  /\ jsonFile = <<>>
  /\ txtExists = FALSE
  /\ txtWords = <<>>
  /\ clock = 0
  /\ pc = "off"
  /\ outcome = "none"
  /\ InitMem
  /\ timers = 0
  /\ saved = FALSE
  /\ event = Ev("none", "")
  /\ drill = NoDrill
  /\ watch = NoWatch
  /\ tally = NoTally
  /\ fnLevelA \in LevelArgs
  /\ fnLevelB \in LevelArgs
  /\ fnResult = <<>>

\* getReviewInterval is applied to both levels
ApplyInterval ==
  /\ fnResult = <<>>
  /\ fnResult' = <<getReviewInterval(fnLevelA), getReviewInterval(fnLevelB)>>
  /\ UNCHANGED <<fileVars, clock, pc, outcome, memVars, timers, saved, event,
                 fnLevelA, fnLevelB, drill, watch, tally>>

NextInterval == ApplyInterval

SpecInterval == InitInterval /\ [][NextInterval]_vars

\* =============================================================== claims
\* the record the session is drilling
Target == wordList[currentIndex + 1]

\* the levels of the records, in collection order
Levels(list) == [i \in DOMAIN list |-> list[i].level]

\* this step handles a character the typing state accepts as input
TypedStep ==
  /\ pc = "practice"
  /\ mode = "typing"
  /\ event'.kind = "char"
  /\ hasStartedTyping \/ IsLetter(event'.ch)

\* this step completes the target word
FullMatchStep == TypedStep /\ Append(userInput, event'.ch) = Target.word

\* this step types a character that breaks the prefix match
MismatchStep == TypedStep /\ ~startsWith(Target.word, Append(userInput, event'.ch))

\* the session runs with a repeat count the configuration allows
ValidRepeat == ~repeatCount.nan /\ repeatCount.n >= 1

\* this step is the full match that brings the streak to repeatCount
StreakReachedStep ==
  FullMatchStep /\ ~repeatCount.nan /\ currentWordStreak + 1 = repeatCount.n

\* C1: when a full-word match brings the streak to repeatCount (1, 3 or 10), the
\* level of the current target increases by exactly 1 and the streak is reset to 0.
C1_StreakAdvancesLevel ==
  [][StreakReachedStep =>
       /\ wordList'[currentIndex + 1].level = Target.level + 1
       /\ currentWordStreak' = 0]_vars

\* C1 witness: a drill of ten repetitions has advanced a level 7 word to level 8
C1_Witness ==
  /\ outcome = "completed"
  /\ repeatCount = Num(10)
  /\ currentWordStreak = 0
  /\ wordList[currentIndex + 1].level = 8

C4_MisspellReschedules ==
  [][(pc = "practice" /\ ValidRepeat /\ mode = "typing" /\ mode' = "error")
     => /\ wordList'[currentIndex + 1].level = 1
        /\ wordList'[currentIndex + 1].nextReviewDate = addDays(clock', 1)]_vars

\* this step calls findNextWordToReview: at the start of the practice and after
\* a level was advanced (the only keypress that saves)
SelectStep ==
  \/ pc = "loaded" /\ event'.kind = "practice" /\ Len(wordList) > 0
  \/ pc = "practice" /\ event'.kind = "char" /\ saved'

\* the positions (1-based) of the records due at `now`
DueAt(list, now) == {i \in DOMAIN list : list[i].nextReviewDate <= now}

\* C5: findNextWordToReview never selects a record whose nextReviewDate is after
\* now, and it finds nothing (the process ends, currentIndex as it was) exactly
\* when no record is due.
C5_SelectsOnlyDue ==
  [][SelectStep =>
       LET due == DueAt(wordList', clock')
       IN /\ pc' = "practice" => (currentIndex' + 1) \in due
          /\ pc' = "exited" <=> due = {}
          /\ due = {} => currentIndex' = currentIndex]_vars

\* C5 witness: the practice starts on the second record while the first one is
\* not due
C5_Witness ==
  /\ pc = "practice"
  /\ event.kind = "practice"
  /\ currentIndex = 1
  /\ wordList[1].nextReviewDate > clock
  /\ wordList[2].nextReviewDate <= clock

\* the due record of the smallest nextReviewDate, the first one in collection
\* order among those of that date
EarliestDue(list, now) ==
  CHOOSE i \in DueAt(list, now) :
    \A j \in DueAt(list, now) :
      \/ list[i].nextReviewDate < list[j].nextReviewDate
      \/ list[i].nextReviewDate = list[j].nextReviewDate /\ i <= j

\* C6: when a record is due, findNextWordToReview selects the position of the due
\* record of the smallest nextReviewDate, and the first of them in collection order
\* when several share that date.
C6_SelectsEarliestFirst ==
  [][(SelectStep /\ DueAt(wordList', clock') # {})
     => currentIndex' + 1 = EarliestDue(wordList', clock')]_vars

\* C6 witness: two records due at the same date, the first one selected
C6_Witness ==
  /\ pc = "practice"
  /\ event.kind = "practice"
  /\ Len(wordList) = 2
  /\ wordList[1].nextReviewDate = wordList[2].nextReviewDate
  /\ wordList[1].nextReviewDate <= clock
  /\ currentIndex = 0

\* this step is a full match that brings the streak to repeatCount or beyond
AdvanceStep ==
  FullMatchStep /\ ValidRepeat /\ currentWordStreak + 1 >= repeatCount.n

\* C7: a qualifying success sets, on the record of the collection, level to
\* level + 1, lastPracticed to now and nextReviewDate to now plus
\* getReviewInterval(new level) days, so that nextReviewDate is lastPracticed plus
\* that interval.
C7_AdvanceSetsSchedule ==
  [][AdvanceStep =>
       LET r == wordList'[currentIndex + 1]
       IN /\ r.level = Target.level + 1
          /\ r.lastPracticed \in clock..clock'
          /\ r.nextReviewDate = addDays(r.lastPracticed, getReviewInterval(r.level))]_vars

\* nextReviewDate is lastPracticed plus the interval of the level
Scheduled(r) ==
  r.nextReviewDate = addDays(r.lastPracticed, getReviewInterval(r.level))

\* C8: in every state of a process that has loaded the list, every record has
\* nextReviewDate = lastPracticed + getReviewInterval(level) days.
C8_DatesDerived ==
  pc # "off" => \A i \in DOMAIN wordList : Scheduled(wordList[i])

\* the table of the specification, written out
ExpectedInterval(l) ==
  CASE l <= 0 -> 0
    [] l = 1 -> 1
    [] l = 2 -> 3
    [] l = 3 -> 7
    [] l = 4 -> 16
    [] l = 5 -> 35
    [] l = 6 -> 70
    [] l = 7 -> 140
    [] OTHER -> 180

\* C9: getReviewInterval(level) is 0 for level <= 0, the element level - 1 of
\* [1, 3, 7, 16, 35, 70, 140] for level in 1..7, and 180 for level > 7.
C9_IntervalTable ==
  fnResult # <<>> =>
    /\ fnResult[1] = ExpectedInterval(fnLevelA)
    /\ fnResult[2] = ExpectedInterval(fnLevelB)

\* C9 witness: the function was applied to a level of the table and to one
\* beyond it
C9_Witness ==
  /\ fnLevelA = 7
  /\ fnLevelB = 8
  /\ fnResult = <<140, 180>>

\* C10: for levels 1 <= a <= b, getReviewInterval(a) <= 180,
\* getReviewInterval(a) <= getReviewInterval(b), and once it is 180 it stays 180.
C10_IntervalMonotoneCapped ==
  (fnResult # <<>> /\ fnLevelA >= 1 /\ fnLevelA <= fnLevelB) =>
    /\ fnResult[1] <= 180
    /\ fnResult[1] <= fnResult[2]
    /\ fnResult[1] = 180 => fnResult[2] = 180

\* C10 witness: the function was applied to the first level of the cap and to
\* a larger one
C10_Witness ==
  /\ fnLevelA = 8
  /\ fnLevelB = 9
  /\ fnResult = <<180, 180>>

\* this step raises the level of the record of word w
LevelRaised(w) ==
  /\ pc = "practice"
  /\ \E i \in DOMAIN wordList, j \in DOMAIN wordList' :
       /\ wordList[i].word = w
       /\ wordList'[j].word = w
       /\ wordList'[j].level > wordList[i].level

\* this step is the last of repeatCount completions of w in a row, n of them
\* counted before it
DrillDone(w, n) ==
  /\ FullMatchStep
  /\ Target.word = w
  /\ ~repeatCount.nan
  /\ OneMore(w, n) >= repeatCount.n

\* C11 as stated: every step that raises the level of a record is the last of
\* repeatCount completions of that word in a row, with no character that breaks
\* the prefix match, no deletion and no change of target between them.
C11_Original ==
  [][\A w \in Words : LevelRaised(w) => DrillDone(w, drill.strict)]_vars

\* C11, amended: every step that raises the level of a record is the last of
\* repeatCount completions of that word in a row, with no deletion, no change of
\* target and no character that breaks the prefix match between them, other than
\* non-letters typed before typing has started, which onKeyPress drops.
C11_LevelNeedsStreak ==
  [][\A w \in Words : LevelRaised(w) => DrillDone(w, drill.count)]_vars

\* C11 witness: a drill of three repetitions has raised a level and the session
\* has moved to the next due word
C11_Witness ==
  /\ pc = "practice"
  /\ event.kind = "char"
  /\ saved
  /\ repeatCount = Num(3)
  /\ drill = NoDrill

\* C12: when a full-word match brings the streak to repeatCount, the record is
\* advanced and the list written, the streak is 0 and findNextWordToReview runs:
\* when no record is due the process ends with "You completed all due words",
\* otherwise the session goes on in the typing state with an empty userInput on
\* the record findNextWordToReview selects.
C12_StreakReachedSelectsNext ==
  [][StreakReachedStep =>
       /\ wordList'[currentIndex + 1].level = Target.level + 1
       /\ saved'
       /\ jsonFile' = wordList'
       /\ currentWordStreak' = 0
       /\ IF DueAt(wordList', clock') = {}
          THEN pc' = "exited" /\ outcome' = "completed"
          ELSE /\ pc' = "practice"
               /\ currentIndex' + 1 = EarliestDue(wordList', clock')
               /\ mode' = "typing"
               /\ userInput' = <<>>]_vars

\* C12 witness: the drill of the second record is over and the session has gone
\* on to the first record, which is due
C12_Witness ==
  /\ pc = "practice"
  /\ event.kind = "char"
  /\ saved
  /\ Len(wordList) = 2
  /\ currentIndex = 0
  /\ wordList[2].lastPracticed >= 0
  /\ wordList[2].level > 0
  /\ mode = "typing"
  /\ userInput = <<>>

\* C13: when a full-word match leaves the streak below repeatCount after the
\* increment, the target and every record stay as they were, nothing is written,
\* userInput is emptied and the session is in the typing state on the same word.
C13_ShortStreakDrillsAgain ==
  [][(FullMatchStep /\ ~repeatCount.nan /\ currentWordStreak + 1 < repeatCount.n)
     => /\ currentIndex' = currentIndex
        /\ wordList' = wordList
        /\ jsonFile' = jsonFile
        /\ ~saved'
        /\ userInput' = <<>>
        /\ mode' = "typing"
        /\ pc' = "practice"
        /\ currentWordStreak' = currentWordStreak + 1]_vars

\* C13 witness: two of three completions of the three-letter word done, the word
\* still the target
C13_Witness ==
  /\ pc = "practice"
  /\ event.kind = "char"
  /\ repeatCount = Num(3)
  /\ currentWordStreak = 2
  /\ event.ch = "a"
  /\ Target.word = W_aba
  /\ drill.count = 2
  /\ userInput = <<>>
  /\ mode = "typing"
  /\ ~saved

\* this step handles, in the typing state, a character that makes userInput a
\* proper prefix of the target word
ProperPrefixStep ==
  /\ pc = "practice"
  /\ mode = "typing"
  /\ event'.kind = "char"
  /\ IsPrefix(Append(userInput, event'.ch), Target.word)
  /\ Append(userInput, event'.ch) # Target.word

\* the character is appended and the session, the streak, the target and the
\* records stay as they were
Appended ==
  /\ userInput' = Append(userInput, event'.ch)
  /\ mode' = "typing"
  /\ pc' = "practice"
  /\ currentWordStreak' = currentWordStreak
  /\ currentIndex' = currentIndex
  /\ wordList' = wordList
  /\ jsonFile' = jsonFile

\* C14: every character that makes userInput a proper prefix of the target word
\* in the typing state is appended, the session stays in the typing state and the
\* streak, the target and the records do not change.
C14_PrefixKeepsTyping == [][(ProperPrefixStep /\ ValidRepeat) => Appended]_vars

\* C15: a backspace in the typing state removes the last character of userInput
\* when there is one and leaves an empty userInput empty; the streak, the target,
\* the mode, the records and the file do not change.
C15_BackspaceRemovesLast ==
  [][(pc = "practice" /\ mode = "typing" /\ event'.kind = "backspace")
     => /\ userInput' = IF userInput = <<>> THEN <<>>
                        ELSE SubSeq(userInput, 1, Len(userInput) - 1)
        /\ currentWordStreak' = currentWordStreak
        /\ currentIndex' = currentIndex
        /\ mode' = "typing"
        /\ pc' = "practice"
        /\ wordList' = wordList
        /\ jsonFile' = jsonFile
        /\ ~saved']_vars

\* C15 witness: of two characters typed the backspace has left the first, in a
\* drill that has a completion behind it
C15_Witness ==
  /\ pc = "practice"
  /\ mode = "typing"
  /\ event.kind = "backspace"
  /\ Len(userInput) = 1
  /\ hasStartedTyping
  /\ currentWordStreak = 1
  /\ Len(Target.word) = 3

\* this step handles Ctrl+D and leaves a record in the list
DeleteLeavesSome ==
  /\ pc = "practice"
  /\ event'.kind = "ctrlD"
  /\ Len(wordList) > 1
  /\ ValidRepeat

\* C16: after a Ctrl+D that leaves the list non-empty, userInput is empty, the
\* streak is 0 and the next word is chosen as findNextWordToReview chooses it:
\* when no record is due the process ends, otherwise the session is in the typing
\* state on the due record of the earliest nextReviewDate.
C16_DeleteSelectsNextDue ==
  [][DeleteLeavesSome =>
       /\ userInput' = <<>>
       /\ currentWordStreak' = 0
       /\ IF DueAt(wordList', clock') = {}
          THEN pc' = "exited"
          ELSE /\ pc' = "practice"
               /\ mode' = "typing"
               /\ currentIndex' + 1 = EarliestDue(wordList', clock')]_vars

\* C17: Ctrl+D, in whatever mode the session is, removes the record at
\* currentIndex and no other, keeps the others in their order, and writes the
\* resulting list to the file.
C17_DeleteRemovesCurrent ==
  [][(pc = "practice" /\ event'.kind = "ctrlD")
     => /\ wordList' = [i \in 1..(Len(wordList) - 1) |->
                          IF i <= currentIndex THEN wordList[i] ELSE wordList[i + 1]]
        /\ jsonFile' = wordList'
        /\ saved']_vars

\* C17 witness: the target of a two-record list was deleted while a penalty timer
\* was pending, and the record that was not due is left
C17_Witness ==
  /\ pc = "practice"
  /\ event.kind = "ctrlD"
  /\ timers > 0
  /\ saved
  /\ Len(wordList) = 1
  /\ jsonFile = wordList
  /\ wordList[1].nextReviewDate > clock

\* C18: Ctrl+D on a list of one record ends the process with "Spelling list is now
\* empty", after saveWordList has written the empty list.
C18_DeleteLastEndsSession ==
  [][(pc = "practice" /\ event'.kind = "ctrlD" /\ Len(wordList) = 1)
     => /\ pc' = "exited"
        /\ outcome' = "listEmpty"
        /\ wordList' = <<>>
        /\ saved'
        /\ jsonFile' = <<>>]_vars

\* C18 witness: the only word was deleted in the middle of a drill
C18_Witness ==
  /\ pc = "exited"
  /\ outcome = "listEmpty"
  /\ event.kind = "ctrlD"
  /\ jsonFile = <<>>
  /\ saved
  /\ currentWordStreak > 0

\* C19: Ctrl+C, in whatever mode the session is and with or without a pending
\* penalty timer, ends the process in that step without changing a record or
\* writing the file, and nothing happens after it: no handler and no timer runs.
C19_InterruptEndsSession ==
  [][/\ (pc = "practice" /\ event'.kind = "ctrlC")
          => /\ pc' = "exited"
             /\ outcome' = "interrupted"
             /\ wordList' = wordList
             /\ jsonFile' = jsonFile
             /\ ~saved'
     /\ outcome = "interrupted" => vars' = vars]_vars

\* C19 witness: the session was interrupted during a penalty, its timer pending
C19_Witness ==
  /\ pc = "exited"
  /\ outcome = "interrupted"
  /\ event.kind = "ctrlC"
  /\ mode = "error"
  /\ timers > 0

\* C20: when the practice starts on a list of which no record is due, the
\* process ends at once with "No words due for review right now!": the session
\* is never in the typing state on a target and no key is ever handled; the
\* outcome "Your spelling list is empty" is another one and is that of the list
\* without records.  The practice session runs only when a record is due.
C20_NothingDueAtStart ==
  /\ event.kind = "practice" =>
       IF Len(wordList) = 0 THEN pc = "exited" /\ outcome = "empty"
       ELSE IF DueAt(wordList, clock) = {} THEN pc = "exited" /\ outcome = "nothingDue"
       ELSE pc = "practice" /\ outcome = "running"
  /\ outcome = "nothingDue" =>
       /\ event.kind = "practice"
       /\ userInput = <<>> /\ ~hasStartedTyping /\ currentWordStreak = 0 /\ timers = 0
  /\ outcome = "empty" => event.kind = "practice" /\ wordList = <<>>

\* C20 witness: the practice was started on two records, none of them due
C20_Witness ==
  /\ pc = "exited"
  /\ outcome = "nothingDue"
  /\ Len(wordList) = 2
  /\ \A i \in DOMAIN wordList : wordList[i].nextReviewDate > clock

\* C21: no practice session runs with a repeatCount that is not an integer >= 1:
\* a -r argument that is below 1 or no number is refused before the session
\* starts.
C21_InvalidRepeatRejected == pc = "practice" => ValidRepeat

\* this step types, with repeatCount 1 and in the typing state, the character the
\* target word has after the characters typed so far
ExactKeyStep ==
  /\ pc = "practice"
  /\ mode = "typing"
  /\ repeatCount = Num(1)
  /\ event'.kind = "char"
  /\ IsPrefix(userInput, Target.word)
  /\ Len(userInput) < Len(Target.word)
  /\ event'.ch = Target.word[Len(userInput) + 1]

\* C22: with repeatCount 1, typing the target word character by character is one
\* pass without a penalty: every character but the last is appended to userInput,
\* and the last one advances the record and either ends the process with "You
\* completed all due words" or leaves the session in the typing state with an
\* empty userInput on the next target.
C22_ExactWordSinglePass ==
  [][ExactKeyStep =>
       IF Len(userInput) + 1 < Len(Target.word)
       THEN /\ userInput' = Append(userInput, event'.ch)
            /\ mode' = "typing"
            /\ pc' = "practice"
       ELSE /\ wordList'[currentIndex + 1].level = Target.level + 1
            /\ \/ pc' = "exited" /\ outcome' = "completed"
               \/ pc' = "practice" /\ mode' = "typing" /\ userInput' = <<>>]_vars

\* this step is one of the explicit resets: `spell <word>`, --import, or the
\* command r of --manage
ResetStep == event'.kind \in {"add", "import"} \/ event' = Ev("line", "r")

\* this step completes the target with the streak at repeatCount or beyond
StreakCompletionStep ==
  FullMatchStep /\ ~repeatCount.nan /\ currentWordStreak + 1 >= repeatCount.n

C24_FileEqualsMemory == pc = "practice" => jsonFile = wordList

\* C24 witness: the session waits after an advance that left a due word, the
\* advanced record in the file
C24_Witness ==
  /\ pc = "practice"
  /\ event.kind = "char"
  /\ saved
  /\ Len(wordList) = 2
  /\ \E i \in DOMAIN jsonFile : jsonFile[i].lastPracticed >= 1 /\ jsonFile[i].level >= 1

\* C25 as stated: every full-word match, also one that leaves the streak below
\* repeatCount, writes the file.
C25_Original == [][(FullMatchStep /\ ValidRepeat) => saved']_vars

\* C25, amended: a full-word match writes the file exactly when it brings the
\* streak to repeatCount or beyond, and what it writes is the list with the
\* advanced record; a match that leaves the streak below repeatCount changes no
\* record and writes nothing.
C25_WriteOnAdvanceOnly ==
  [][FullMatchStep =>
       IF ~repeatCount.nan /\ currentWordStreak + 1 >= repeatCount.n
       THEN /\ saved'
            /\ jsonFile' = wordList'
            /\ jsonFile'[currentIndex + 1].level = Target.level + 1
       ELSE /\ ~saved'
            /\ jsonFile' = jsonFile
            /\ wordList' = wordList]_vars

\* C25 witness: the third completion of a drill of three has written the record,
\* the two before it have not
C25_Witness ==
  /\ event.kind = "char"
  /\ saved
  /\ repeatCount = Num(3)
  /\ outcome = "completed"
  /\ jsonFile = wordList
  /\ jsonFile[currentIndex + 1].level >= 1

\* the dates of record r are those of its level: nextReviewDate is lastPracticed
\* plus the interval of the level, or one tick more when the clock advanced
\* between the two reads of the handler that set them
DatesOfLevel(r) ==
  LET due == addDays(r.lastPracticed, getReviewInterval(r.level))
  IN r.nextReviewDate \in {due, due + 1}

\* C26: whenever the session waits for an event, no record has a level without
\* the dates that were set with it, and after an advance the streak is 0, userInput
\* is empty and the mode is typing: no handler leaves its updates half applied.
C26_NoHalfAppliedTransition ==
  pc = "practice" =>
    /\ \A i \in DOMAIN wordList : DatesOfLevel(wordList[i])
    /\ (event.kind = "char" /\ saved) =>
         /\ currentWordStreak = 0
         /\ userInput = <<>>
         /\ mode = "typing"
         /\ ~hasStartedTyping

\* C26 witness: a key is handled after an advance, the advanced record complete
C26_Witness ==
  /\ pc = "practice"
  /\ event.kind = "backspace"
  /\ currentWordStreak = 0
  /\ \E i \in DOMAIN wordList :
       /\ wordList[i].level = 1
       /\ wordList[i].lastPracticed >= 0
       /\ wordList[i].nextReviewDate > clock
       /\ i # currentIndex + 1

\* C27: the step that advances a record leaves its word and its definition, all
\* the other records, and the order and the length of the list as they were.
C27_AdvanceFrame ==
  [][StreakCompletionStep =>
       /\ Len(wordList') = Len(wordList)
       /\ wordList'[currentIndex + 1].word = Target.word
       /\ wordList'[currentIndex + 1].definition = Target.definition
       /\ DOMAIN wordList'[currentIndex + 1] = DOMAIN Target
       /\ \A i \in DOMAIN wordList : i # currentIndex + 1 => wordList'[i] = wordList[i]]_vars

\* C27 witness: the second of two records was advanced, the first one is as it
\* was loaded
C27_Witness ==
  /\ event.kind = "char"
  /\ saved
  /\ Len(wordList) = 2
  /\ wordList[2].lastPracticed >= 0
  /\ wordList[2].level >= 1
  /\ wordList[2].definition = "d1"
  /\ wordList[1].level = 7
  /\ wordList[1].nextReviewDate = 1

\* no two records of the list have words that are equal when case is ignored
OnePerWord(list) ==
  \A i, j \in DOMAIN list :
    toLowerCase(list[i].word) = toLowerCase(list[j].word) => i = j

\* C28: after any sequence of add, import and migration steps, the list in memory
\* and the list in the file hold at most one record per word, case ignored, also
\* when a file lists a word twice in different casing.
C28_OneRecordPerWord == OnePerWord(wordList) /\ OnePerWord(jsonFile)

\* C28 witness: the migration of a text file that lists b, Aba and aba has left
\* two records
C28_Witness ==
  /\ event.kind = "launch"
  /\ saved
  /\ txtWords = <<W_b, W_Aba, W_aba>>
  /\ ~txtExists
  /\ Len(wordList) = 2
  /\ wordList[2].word = W_Aba

\* the positions of the records of list whose word is w, case ignored
Holding(list, w) == {i \in DOMAIN list : toLowerCase(list[i].word) = toLowerCase(w)}

\* C29: `spell <word>` with a word the list does not hold appends a record of
\* level 0 with lastPracticed = nextReviewDate = now; with a word it holds, case
\* ignored, it sets that record to level 0 and both dates to now and leaves the
\* length of the list, the stored spelling, the definition and every other record
\* as they were.  The list is written to the file.
C29_AddOrReset ==
  [][(pc = "loaded" /\ event'.kind = "add") =>
       LET w == event'.ch
           n == Len(wordList)
       IN /\ saved'
          /\ jsonFile' = wordList'
          /\ IF Holding(wordList, w) = {}
             THEN /\ Len(wordList') = n + 1
                  /\ SubSeq(wordList', 1, n) = wordList
                  /\ wordList'[n + 1].word = w
                  /\ wordList'[n + 1].level = 0
                  /\ wordList'[n + 1].lastPracticed = clock
                  /\ wordList'[n + 1].nextReviewDate = clock
             ELSE /\ Len(wordList') = n
                  /\ \A i \in DOMAIN wordList :
                       IF i \in Holding(wordList, w)
                       THEN wordList'[i] = [wordList[i] EXCEPT !.level = 0,
                                                               !.lastPracticed = clock,
                                                               !.nextReviewDate = clock]
                       ELSE wordList'[i] = wordList[i]]_vars

\* C29 witness: `spell aba` has reset the record stored as Aba, which keeps its
\* spelling and the definition of the migration
C29_Witness ==
  /\ outcome = "added"
  /\ event = Ev("add", W_aba)
  /\ Len(wordList) = 2
  /\ wordList[2].word = W_Aba
  /\ wordList[2].level = 0
  /\ wordList[2].lastPracticed = clock
  /\ wordList[2].nextReviewDate = clock
  /\ wordList[1].lastPracticed < clock

\* C30: the answer to the question of --clear decides: on y or Y the list is
\* emptied in memory and in the file; on every other answer the list in memory
\* and the file stay as they were and nothing is written.  The process ends in
\* both cases.
C30_ClearOnlyOnYes ==
  [][(pc = "clearPrompt" /\ event'.kind = "answer") =>
       /\ pc' = "exited"
       /\ IF event'.ch \in {"y", "Y"}
          THEN /\ wordList' = <<>>
               /\ jsonFile' = <<>>
               /\ saved'
               /\ outcome' = "cleared"
          ELSE /\ wordList' = wordList
               /\ jsonFile' = jsonFile
               /\ ~saved'
               /\ outcome' = "cancelled"]_vars

\* C30 witness: the answer was the empty line and the two records are still there
C30_Witness ==
  /\ outcome = "cancelled"
  /\ event = Ev("answer", "")
  /\ Len(wordList) = 2
  /\ jsonFile = wordList

\* C31: whenever the practice session is in the typing state, the target is a
\* due record (nextReviewDate <= now), so that only due records are advanced.
C31_TargetIsDue ==
  (pc = "practice" /\ mode = "typing") => Target.nextReviewDate <= clock

\* C33: whenever the practice session waits for an event, userInput is a prefix
\* of the word of the target and shorter than it (so no completed word stays in
\* it); it is empty during every penalty, after every deletion and after every
\* advance to another target.
C33_InputIsProperPrefix ==
  pc = "practice" =>
    /\ IsPrefix(userInput, Target.word)
    /\ Len(userInput) < Len(Target.word)
    /\ mode = "error" => userInput = <<>>
    /\ event.kind = "ctrlD" => userInput = <<>>
    /\ (event.kind = "char" /\ saved) => userInput = <<>>

\* C33 witness: Ctrl+D has made the one-letter word the target, with nothing of
\* the deleted word left in userInput
C33_Witness ==
  /\ pc = "practice"
  /\ event.kind = "ctrlD"
  /\ userInput = <<>>
  /\ Len(wordList) = 1
  /\ Target.word = W_b
  /\ ~hasStartedTyping
  /\ timers = 0

\* C34 as stated: in a session with repeatCount >= 1 every step leaves the streak
\* in 0..repeatCount-1, and the streak is 0 after every character that breaks the
\* prefix match in the typing state, after every advance and after every Ctrl+D.
C34_Original ==
  [][(pc = "practice" /\ pc' = "practice" /\ ValidRepeat) =>
       /\ currentWordStreak' \in 0..(repeatCount.n - 1)
       /\ (/\ mode = "typing"
           /\ event'.kind = "char"
           /\ ~IsPrefix(Append(userInput, event'.ch), Target.word))
          => currentWordStreak' = 0
       /\ StreakCompletionStep => currentWordStreak' = 0
       /\ event'.kind = "ctrlD" => currentWordStreak' = 0]_vars

\* C34, amended: in a session with repeatCount >= 1, whenever the session waits
\* for an event the streak is in 0..repeatCount-1; it is 0 during every penalty,
\* after every advance and after every Ctrl+D.  (A non-letter that breaks the
\* prefix before typing has started starts no penalty and leaves the streak.)
C34_StreakBelowRepeat ==
  (pc = "practice" /\ ValidRepeat) =>
    /\ currentWordStreak \in 0..(repeatCount.n - 1)
    /\ mode = "error" => currentWordStreak = 0
    /\ (event.kind = "char" /\ saved) => currentWordStreak = 0
    /\ event.kind = "ctrlD" => currentWordStreak = 0

\* C34 witness: nine completions of a drill of ten are done
C34_Witness ==
  /\ pc = "practice"
  /\ repeatCount = Num(10)
  /\ currentWordStreak = 9
  /\ mode = "typing"

\* C35: the record a step advances is not due when findNextWordToReview runs
\* after it (its nextReviewDate is a day or more after the time of the advance),
\* the session does not stay on it, and the records due then are those that were
\* due, less the advanced one: one fewer.
C35_AdvanceLeavesOneFewerDue ==
  [][(StreakCompletionStep /\ ValidRepeat) =>
       /\ wordList'[currentIndex + 1].nextReviewDate >= addDays(clock, 1)
       /\ (currentIndex + 1) \notin DueAt(wordList', clock')
       /\ pc' = "practice" => currentIndex' # currentIndex
       /\ DueAt(wordList', clock') = DueAt(wordList, clock') \ {currentIndex + 1}
       /\ Cardinality(DueAt(wordList', clock')) = Cardinality(DueAt(wordList, clock')) - 1]_vars

\* C37: during a penalty (mode error) a character or a backspace changes neither
\* userInput, the streak, the target, the mode nor a record, and writes nothing;
\* and the timer that ends the penalty brings nothing typed meanwhile into
\* userInput.
C37_PenaltyDiscardsKeys ==
  [][(pc = "practice" /\ mode = "error") =>
       /\ event'.kind \in {"char", "backspace"} =>
            /\ userInput' = userInput
            /\ currentWordStreak' = currentWordStreak
            /\ currentIndex' = currentIndex
            /\ mode' = "error"
            /\ pc' = "practice"
            /\ wordList' = wordList
            /\ jsonFile' = jsonFile
            /\ ~saved'
       /\ event'.kind = "timer" =>
            /\ userInput' = <<>>
            /\ currentWordStreak' = 0
            /\ wordList' = wordList]_vars

\* C37 witness: a letter has just been pressed during a penalty (the mismatch
\* itself leaves hasStartedTyping false) and userInput is still empty
C37_Witness ==
  /\ pc = "practice"
  /\ mode = "error"
  /\ event.kind = "char"
  /\ hasStartedTyping
  /\ userInput = <<>>
  /\ currentWordStreak = 0

\* a callback of setTimeout runs
TimerStep == pc = "practice" /\ timers' = timers - 1

\* C39: when a penalty timer fires it is the only one pending: either the
\* session is in the penalty of the mismatch that set it, or it is typing
\* again and no later penalty is waiting for its own timer.
C39_TimerEndsOwnPenalty ==
  [][TimerStep => timers = 1]_vars

\* C40: while a practice session waits for an event the list is not empty and
\* currentIndex is an index of it (0 <= currentIndex < length).
C40_CurrentIndexValid ==
  pc = "practice" =>
    /\ Len(wordList) > 0
    /\ currentIndex \in 0..(Len(wordList) - 1)

\* C40 witness: Ctrl+D has taken a record out of a list of MaxWords records and
\* the session goes on with the first record of the rest
C40_Witness ==
  /\ pc = "practice"
  /\ event.kind = "ctrlD"
  /\ Len(wordList) = MaxWords - 1
  /\ currentIndex = 0
  /\ jsonFile = wordList

\* C32: what a character does to userInput, the streak, the mode and the
\* records depends only on wordList, currentIndex, userInput, the streak,
\* repeatCount, the mode and the character: a character that meets the state
\* an earlier one met leaves what the earlier one left.
C32_ReactionIsFunction ==
  [][(/\ pc = "practice"
      /\ event'.kind = "char"
      /\ watch.set
      /\ watch.from = Projection
      /\ watch.ch = event'.ch) => Reaction' = watch.to]_vars

\* C38: a penalty ends: from mode error the session comes back to typing or
\* the process exits.  The step that leaves the penalty without Ctrl+D or
\* Ctrl+C is the timer callback, and it finds the target, the empty userInput
\* and the streak 0 the mismatch left.
C38_PenaltyEnds ==
  /\ (pc = "practice" /\ mode = "error") ~> (pc = "exited" \/ mode = "typing")
  /\ [][(pc = "practice" /\ mode = "error") =>
          /\ timers > 0
          /\ userInput = <<>>
          /\ currentWordStreak = 0
          /\ (pc' = "practice" /\ event'.kind # "ctrlD") =>
               /\ currentIndex' = currentIndex
               /\ wordList' = wordList
               /\ userInput' = <<>>
               /\ currentWordStreak' = 0
               /\ mode' = "typing" <=> event'.kind = "timer"]_vars

\* C38 witness: the timer has ended a penalty; the target waits with empty
\* userInput and streak 0
C38_Witness ==
  /\ pc = "practice"
  /\ event.kind = "timer"
  /\ mode = "typing"
  /\ timers = 0
  /\ userInput = <<>>
  /\ currentWordStreak = 0
  /\ ~hasStartedTyping
  /\ Len(wordList) = 2

\* the session has ended with "You completed all due words!"
Cleared == pc = "exited" /\ outcome = "completed"

\* C36: a session with repeatCount n >= 1 in which only the characters of the
\* target are typed ends with all due words cleared; when less than a day has
\* passed since its start, it has seen n completions for each record due at
\* the start and has advanced each of them once and nothing else.
C36_ExactTypingClears ==
  /\ (pc = "practice" /\ ValidRepeat) ~> Cleared
  /\ []((Cleared /\ ValidRepeat /\ clock - tally.start < TicksPerDay) =>
          /\ tally.completions = repeatCount.n * Cardinality(tally.due)
          /\ Len(tally.advanced) = Cardinality(tally.due)
          /\ \A w \in tally.due : \E i \in DOMAIN tally.advanced : tally.advanced[i] = w)

====
